---- MODULE Spec2Model ----
(***************************************************************************)
(* A model of src/src/processing.rs: the expansion / mutation engine of    *)
(* config-mangler (apply_mutation, _lookup, lookup, expand_string, expand, *)
(* process_yaml) and its diagnostic context (CURRENT_FILE, DEFAULT_HOOK,   *)
(* panic_hook, with_error_catcher).                                        *)
(*                                                                         *)
(* Text is a sequence of one-character strings, so that the two regular    *)
(* expressions, the slicing of _lookup and the ordering used by the sort   *)
(* of expand are computed character by character.                          *)
(***************************************************************************)
EXTENDS Integers, Sequences, FiniteSets, TLC

VARIABLES
    env,            \* the Environment of the call: definitions, mutations, prefixes
    pc,             \* position of the engine: "idle", or the operation that has run
    arg,            \* the argument the operation was called with
    ret,            \* what the operation produced (a value, None/Some, Panic, ...)
    content,        \* process_yaml: the tree being mutated
    mi,             \* process_yaml: index of the next mutation record to look at
    hook,           \* the process-wide panic hook (std::panic::set_hook/take_hook)
    CURRENT_FILE,   \* thread-local: [thread -> None | Some(output path)]
    DEFAULT_HOOK,   \* thread-local: [thread -> None | Some(saved hook)]
    tpc,            \* position of each thread inside with_error_catcher
    tfile,          \* output_path argument of each thread's current render call
    before,         \* the hook that was in force when each thread's call started
    log,            \* what the hooks have reported so far, in order
    rendered,       \* output paths of the render calls that have returned, in order
    workers         \* the threads that make render calls

vars == <<env, pc, arg, ret, content, mi, hook, CURRENT_FILE, DEFAULT_HOOK,
          tpc, tfile, before, log, rendered, workers>>

engineVars == <<env, pc, arg, ret, content, mi>>
diagVars == <<hook, CURRENT_FILE, DEFAULT_HOOK, tpc, tfile, before, log, rendered, workers>>

----------------------------------------------------------------------------
(* Text *)

\* The byte value of each character the model uses (Rust compares str bytewise).
CharCode ==
    ("\t" :> 9) @@ ("\n" :> 10) @@ (" " :> 32) @@ ("\"" :> 34) @@ ("(" :> 40) @@ (")" :> 41) @@
    ("*" :> 42) @@ ("," :> 44) @@ ("/" :> 47) @@ ("0" :> 48) @@ ("1" :> 49) @@
    ("2" :> 50) @@ ("3" :> 51) @@ ("4" :> 52) @@ ("5" :> 53) @@ ("6" :> 54) @@
    ("7" :> 55) @@ ("8" :> 56) @@ ("9" :> 57) @@ (":" :> 58) @@ ("[" :> 91) @@
    ("]" :> 93) @@ ("a" :> 97) @@ ("b" :> 98) @@ ("c" :> 99) @@ ("d" :> 100) @@
    ("e" :> 101) @@ ("f" :> 102) @@ ("h" :> 104) @@ ("j" :> 106) @@ ("k" :> 107) @@
    ("l" :> 108) @@ ("n" :> 110) @@ ("o" :> 111) @@ ("p" :> 112) @@ ("r" :> 114) @@
    ("s" :> 115) @@ ("t" :> 116) @@ ("u" :> 117) @@ ("v" :> 118) @@ ("x" :> 120) @@
    ("y" :> 121) @@ ("z" :> 122) @@ ("{" :> 123) @@ ("}" :> 125)

\* a < b for two texts, as Rust's Ord for String: bytewise lexicographic.
StrLess(a, b) ==
    \E i \in 1..(Len(a) + 1) :
        /\ i <= Len(b)
        /\ \A j \in 1..(i - 1) : a[j] = b[j]
        /\ \/ i > Len(a)
           \/ CharCode[a[i]] < CharCode[b[i]]

\* str::starts_with / str::ends_with
starts_with(s, prefix) ==
    /\ Len(prefix) <= Len(s)
    /\ SubSeq(s, 1, Len(prefix)) = prefix

ends_with(s, suffix) ==
    /\ Len(suffix) <= Len(s)
    /\ SubSeq(s, Len(s) - Len(suffix) + 1, Len(s)) = suffix

\* format!("{n}") of a non-negative integer.
RECURSIVE Digits(_)
Digits(n) ==
    LET d == <<"0", "1", "2", "3", "4", "5", "6", "7", "8", "9">>
    IN  IF n < 10 THEN <<d[n + 1]>> ELSE Digits(n \div 10) \o <<d[(n % 10) + 1]>>

----------------------------------------------------------------------------
(* serde_yaml::Value, Option, and the ways a call can fail to return *)

Null == [t |-> "Null"]
Bool(b) == [t |-> "Bool", b |-> b]
Number(n) == [t |-> "Number", n |-> n]
String(s) == [t |-> "String", s |-> s]
Sequence(e) == [t |-> "Sequence", e |-> e]
\* A Mapping keeps its entries in insertion order: a sequence of <<key, value>>.
Mapping(m) == [t |-> "Mapping", m |-> m]
Tagged == [t |-> "Tagged"]

None == [t |-> "None"]
Some(v) == [t |-> "Some", v |-> v]

\* panic!: the call does not return; the panic hook runs and the thread unwinds.
Panic == [t |-> "Panic"]
\* The call re-enters itself with the same arguments: the recursion has no end
\* (in the build it exhausts the stack, which is not a panic: no hook runs).
StackOverflow == [t |-> "StackOverflow"]

Failed(r) == r.t \in {"Panic", "StackOverflow"}

\* The first failure among a sequence of outcomes evaluated in order, or None.
FirstFailure(rs) ==
    IF \E i \in DOMAIN rs : Failed(rs[i])
    THEN rs[CHOOSE i \in DOMAIN rs : Failed(rs[i]) /\ \A j \in 1..(i - 1) : ~Failed(rs[j])]
    ELSE None

\* Mapping::get by key, Mapping::contains_key
KeyIndex(m, k) == CHOOSE i \in DOMAIN m : m[i][1] = k
HasKey(m, k) == \E i \in DOMAIN m : m[i][1] = k

\* Mapping::insert: a present key keeps its place and takes the new value; an
\* absent one is appended.
MapInsert(m, k, v) ==
    IF HasKey(m, k)
    THEN [m EXCEPT ![KeyIndex(m, k)] = <<k, v>>]
    ELSE Append(m, <<k, v>>)

\* Mapping::remove of a present key (serde_yaml 0.9: swap_remove, the last entry
\* takes the place of the removed one).
MapRemove(m, k) ==
    LET i == KeyIndex(m, k)
        n == Len(m)
    IN  IF i = n THEN SubSeq(m, 1, n - 1)
        ELSE SubSeq([m EXCEPT ![i] = m[n]], 1, n - 1)

\* FromIterator for Mapping: insert the entries one after another.
RECURSIVE Collect(_)
Collect(entries) ==
    IF entries = <<>> THEN <<>>
    ELSE LET n == Len(entries)
         IN  MapInsert(Collect(SubSeq(entries, 1, n - 1)), entries[n][1], entries[n][2])

----------------------------------------------------------------------------
(* The reference-token patterns (lines 188-192) *)

\* \s of the regex crate, over the characters of the model.
IsSpace(c) == c \in {" ", "\t", "\n"}

\* [^) ] : anything but a closing parenthesis and the space character.
IsNameChar(c) == c \notin {")", " "}

\* Index of the first ")" of s at or after i; Len(s) + 1 when there is none.
FirstClose(s, i) ==
    IF \E x \in i..Len(s) : s[x] = ")"
    THEN CHOOSE x \in i..Len(s) : s[x] = ")" /\ \A y \in i..(x - 1) : s[y] # ")"
    ELSE Len(s) + 1

\* One way of splitting what lies between "((" at i and the first ")" at fc into
\* k characters of whitespace, n characters of name, and whitespace.
Matches(s, i, fc, k, n) ==
    /\ \A x \in (i + 2)..(i + 1 + k) : IsSpace(s[x])
    /\ \A x \in (i + 2 + k)..(i + 1 + k + n) : IsNameChar(s[x])
    /\ \A x \in (i + 2 + k + n)..(fc - 1) : IsSpace(s[x])

\* The leading whitespace taken by the greedy \s* : the longest that lets the
\* rest match, or -1 when no split matches.
LeadingSpace(s, i, fc) ==
    IF \E k \in 0..(fc - i - 2) : \E n \in 0..(fc - i - 2 - k) : Matches(s, i, fc, k, n)
    THEN CHOOSE k \in 0..(fc - i - 2) :
            /\ \E n \in 0..(fc - i - 2 - k) : Matches(s, i, fc, k, n)
            /\ \A y \in (k + 1)..(fc - i - 2) :
                  ~\E n \in 0..(fc - i - 2 - y) : Matches(s, i, fc, y, n)
    ELSE -1

\* The length of the name taken by the lazy [^) ]*? : the shortest that lets the
\* rest match, after k characters of leading whitespace.
NameLength(s, i, fc, k) ==
    CHOOSE n \in 0..(fc - i - 2 - k) :
        /\ Matches(s, i, fc, k, n)
        /\ \A y \in 0..(n - 1) : ~Matches(s, i, fc, k, y)

Captures(s, i, fc, k, n) ==
    [t |-> "Some", name |-> SubSeq(s, i + 2 + k, i + 1 + k + n), end |-> fc + 1]

CapturesAfter(s, i, fc, k) ==
    IF k < 0 THEN None ELSE Captures(s, i, fc, k, NameLength(s, i, fc, k))

CapturesUpTo(s, i, fc) ==
    IF fc + 1 > Len(s) THEN None
    ELSE IF s[fc + 1] # ")" THEN None
    ELSE CapturesAfter(s, i, fc, LeadingSpace(s, i, fc))

\* VAR_SUBSTITUTION_PATTERN  \(\(\s*([^) ]*?)\s*\)\)  anchored at index i of s.
\* Nothing between the opening "((" and the closing "))" can be a ")", so the
\* match ends at the first ")" after the opening; what lies between is split
\* into whitespace, name, whitespace.  Of the splits that match, the regex takes
\* the one with the longest leading whitespace (\s* is greedy) and then the
\* shortest name ([^) ]*? is lazy).  Yields [name, end] or None.
VarSubstitutionAt(s, i) ==
    IF ~(i + 1 <= Len(s) /\ s[i] = "(" /\ s[i + 1] = "(") THEN None
    ELSE CapturesUpTo(s, i, FirstClose(s, i + 2))

\* Index of the first character of s that is no whitespace; Len(s) + 1 when
\* there is none.
FirstNonSpace(s) ==
    IF \E x \in 1..Len(s) : ~IsSpace(s[x])
    THEN CHOOSE x \in 1..Len(s) : ~IsSpace(s[x]) /\ \A y \in 1..(x - 1) : IsSpace(s[y])
    ELSE Len(s) + 1

AnchoredAtEnd(s, m) ==
    IF m = None THEN None
    ELSE IF \A x \in (m.end + 1)..Len(s) : IsSpace(s[x])
         THEN [t |-> "Some", name |-> m.name]
         ELSE None

\* FULL_MATCH_PATTERN  \A\s*\(\(\s*([^) ]*?)\s*\)\)\s*\z : the whole text is
\* whitespace, one token, whitespace.  Yields [name] or None.
FullMatch(s) == AnchoredAtEnd(s, VarSubstitutionAt(s, FirstNonSpace(s)))

----------------------------------------------------------------------------
(* string_value (crate::variable_definitions, not part of src/): the text of *)
(* a String value, and no text for any other value.                          *)

string_value(v) == IF v.t = "String" THEN Some(v.s) ELSE None

\* Ord for Option<String>: None first, then the texts in their order.
KeyLess(a, b) ==
    \/ a = None /\ b # None
    \/ a # None /\ b # None /\ StrLess(a.v, b.v)

\* The place of entry x among the sorted entries front: after the entries whose
\* key is not greater than its own.
insert_by_key(front, x) ==
    SubSeq(front, 1, Cardinality({i \in DOMAIN front :
                        ~KeyLess(string_value(x[1]), string_value(front[i][1]))}))
    \o <<x>>
    \o SubSeq(front, 1 + Cardinality({i \in DOMAIN front :
                        ~KeyLess(string_value(x[1]), string_value(front[i][1]))}),
              Len(front))

\* Vec::sort_by_key is a stable sort: insertion sort, entry after entry.
\* The sort left out: the entries stay in the order of the source.
sort_skipped(stuff) == stuff

RECURSIVE sort_by_key(_)
sort_by_key(stuff) ==
    IF Len(stuff) <= 1 THEN stuff
    ELSE insert_by_key(sort_by_key(SubSeq(stuff, 1, Len(stuff) - 1)), stuff[Len(stuff)])

----------------------------------------------------------------------------
(* Canonical JSON of an expanded value (json_canon over serde_json::to_value):  *)
(* object keys sorted, no insignificant whitespace.                           *)

JsonEscape(c) ==
    CASE c = "\"" -> <<"\\", "\"">>
      [] c = "\t" -> <<"\\", "t">>
      [] c = "\n" -> <<"\\", "n">>
      [] OTHER -> <<c>>

RECURSIVE Concat(_)
Concat(parts) ==
    IF parts = <<>> THEN <<>> ELSE Head(parts) \o Concat(Tail(parts))

JsonString(s) == <<"\"">> \o Concat([i \in DOMAIN s |-> JsonEscape(s[i])]) \o <<"\"">>

\* The parts joined by commas.
RECURSIVE JoinComma(_)
JoinComma(parts) ==
    IF parts = <<>> THEN <<>>
    ELSE IF Len(parts) = 1 THEN parts[1]
    ELSE parts[1] \o <<",">> \o JoinComma(Tail(parts))

\* serde_json takes text keys (and integer keys, as their digits) only.
JsonKeyOk(k) == k.t \in {"String", "Number"}
JsonKey(k) == IF k.t = "String" THEN k.s ELSE Digits(k.n)

RECURSIVE JsonSerializable(_)
JsonSerializable(v) ==
    CASE v.t = "Sequence" -> \A i \in DOMAIN v.e : JsonSerializable(v.e[i])
      [] v.t = "Mapping" ->
            \A i \in DOMAIN v.m : JsonKeyOk(v.m[i][1]) /\ JsonSerializable(v.m[i][2])
      [] v.t = "Tagged" -> FALSE
      [] OTHER -> TRUE

RECURSIVE JsonCanon(_)

JsonObject(byKey) ==
    <<"{">> \o JoinComma([i \in DOMAIN byKey |->
                JsonString(byKey[i][1].s) \o <<":">> \o JsonCanon(byKey[i][2])])
    \o <<"}">>

JsonCanon(v) ==
    CASE v.t = "Null" -> <<"n", "u", "l", "l">>
      [] v.t = "Bool" -> IF v.b THEN <<"t", "r", "u", "e">> ELSE <<"f", "a", "l", "s", "e">>
      [] v.t = "Number" -> Digits(v.n)
      [] v.t = "String" -> JsonString(v.s)
      [] v.t = "Sequence" ->
            <<"[">> \o JoinComma([i \in DOMAIN v.e |-> JsonCanon(v.e[i])]) \o <<"]">>
      [] v.t = "Mapping" ->
            JsonObject(sort_by_key([i \in DOMAIN v.m |->
                           <<String(JsonKey(v.m[i][1])), v.m[i][2]>>]))

----------------------------------------------------------------------------
(* Lookup Resolver and Expander (lines 130-239) *)

\* str::rfind('/') in s[..upto]: the index of the right-most "/" among the
\* first upto characters, or 0.
rfind_slash(s, upto) ==
    IF \E i \in 1..upto : s[i] = "/"
    THEN CHOOSE i \in 1..upto : s[i] = "/" /\ \A j \in (i + 1)..upto : s[j] # "/"
    ELSE 0

\* The fallback of _lookup: the "/*" entry of what precedes last_slash.
RECURSIVE _lookup(_, _)

_lookup_parent(reference_name, environment, last_slash) ==
    IF last_slash = 0 THEN None
    ELSE _lookup(SubSeq(reference_name, 1, last_slash - 1) \o <<"/", "*">>, environment)

\* fn _lookup: the exact entry, else the "/*" entry of what precedes the
\* right-most "/" of the name less its last two characters, recursively.  A name
\* of fewer than two characters makes the slice reference_name[..len - 2] panic.
_lookup(reference_name, environment) ==
    IF reference_name \in DOMAIN environment.definitions.definitions
    THEN Some(environment.definitions.definitions[reference_name])
    ELSE IF Len(reference_name) < 2 THEN Panic
    ELSE _lookup_parent(reference_name, environment,
                        rfind_slash(reference_name, Len(reference_name) - 2))

\* reference_name.starts_with(prefix) for any of the expected prefixes
should_be_runtime_value(reference_name, environment) ==
    \E i \in DOMAIN environment.expected_runtime_lookup_prefixes :
        starts_with(reference_name, environment.expected_runtime_lookup_prefixes[i])

\* reference_name.ends_with("/json")
should_be_json(reference_name) == ends_with(reference_name, <<"/", "j", "s", "o", "n">>)

\* The tail of fn lookup, from the expanded value on.
lookup_expanded(reference_name, expanded_val) ==
    IF Failed(expanded_val) THEN expanded_val
    ELSE IF ~should_be_json(reference_name) THEN Some(expanded_val)
    ELSE IF expanded_val.t = "Mapping"
         THEN IF JsonSerializable(expanded_val)
              THEN Some(String(JsonCanon(expanded_val)))
              ELSE Panic
    ELSE IF expanded_val.t = "String" THEN Some(expanded_val)
    ELSE Panic

RECURSIVE lookup(_, _, _), expand_string(_, _, _), expand(_, _, _), replace_all(_, _, _, _)

\* fn lookup, from the result of _lookup on.  active holds the reference names
\* whose lookup is in progress up the call chain: lookup is a function of its
\* arguments alone, so a lookup reached from inside the lookup of the same name
\* repeats it without end.  The WARN line of a hardcoded runtime value changes
\* nothing and is left out.
lookup_found(reference_name, environment, active, found) ==
    CASE found = Panic -> Panic
      [] found = None ->
            IF should_be_runtime_value(reference_name, environment) THEN None ELSE Panic
      [] OTHER ->
            IF reference_name \in active THEN StackOverflow
            ELSE lookup_expanded(reference_name,
                     expand(found.v, environment, active \cup {reference_name}))

\* fn lookup
lookup(reference_name, environment, active) ==
    lookup_found(reference_name, environment, active, _lookup(reference_name, environment))

\* The closure of replace_all: the text that takes the place of one token.
replacement(ref_name, val) ==
    CASE val = None -> Some(<<"(", "(", " ">> \o ref_name \o <<" ", ")", ")">>)
      [] Failed(val) -> val
      [] val.v.t = "Number" -> Some(Digits(val.v.n))
      [] val.v.t = "String" -> Some(val.v.s)
      [] OTHER -> Panic

\* text followed by the replaced rest, or the failure of the rest.
followed_by(text, rest) == IF Failed(rest) THEN rest ELSE String(text \o rest.s)

replace_from(s, environment, active, end, text) ==
    IF Failed(text) THEN text
    ELSE followed_by(text.v, replace_all(s, end + 1, environment, active))

replace_at(s, i, environment, active, captures) ==
    IF captures = None
    THEN followed_by(<<s[i]>>, replace_all(s, i + 1, environment, active))
    ELSE replace_from(s, environment, active, captures.end,
                      replacement(captures.name, lookup(captures.name, environment, active)))

\* Regex::replace_all of expand_string, from index i on: the text of s from i
\* with every token replaced, left to right, or the first failure of a lookup.
replace_all(s, i, environment, active) ==
    IF i > Len(s) THEN String(<<>>)
    ELSE replace_at(s, i, environment, active, VarSubstitutionAt(s, i))

\* lookup(..).unwrap_or_else(|| Value::String(string.clone()))
unwrap_or(val, default) ==
    CASE val = None -> default
      [] Failed(val) -> val
      [] OTHER -> val.v

\* expand_string without its full-match branch: every token is interpolated.
expand_string_interpolating(string, environment, active) ==
    replace_all(string, 1, environment, active)

\* fn expand_string
expand_string(string, environment, active) ==
    IF FullMatch(string) # None
    THEN unwrap_or(lookup(FullMatch(string).name, environment, active), String(string))
    ELSE replace_all(string, 1, environment, active)

\* The outcomes of a loop over parts, or the first failure among them.
all_or_failure(parts, whole) ==
    IF FirstFailure(parts) # None THEN FirstFailure(parts) ELSE whole

\* The second half of the Mapping arm of expand: the entries, sorted by key,
\* have their values expanded in that order and are collected.
expand_values(stuff, environment, active) ==
    all_or_failure([i \in DOMAIN stuff |-> expand(stuff[i][2], environment, active)],
                   Mapping(Collect([i \in DOMAIN stuff |->
                       <<stuff[i][1], expand(stuff[i][2], environment, active)>>])))

\* The first half of the Mapping arm of expand: the keys expanded in the order
\* of the source, then the sort.
expand_keys(m, keys, environment, active) ==
    IF FirstFailure(keys) # None THEN FirstFailure(keys)
    ELSE expand_values(sort_by_key([i \in DOMAIN m |-> <<keys[i], m[i][2]>>]),
                       environment, active)

\* fn expand
expand(value, environment, active) ==
    CASE value.t \in {"Null", "Bool", "Number"} -> value
      [] value.t = "String" -> expand_string(value.s, environment, active)
      [] value.t = "Sequence" ->
            all_or_failure([i \in DOMAIN value.e |-> expand(value.e[i], environment, active)],
                Sequence([i \in DOMAIN value.e |-> expand(value.e[i], environment, active)]))
      [] value.t = "Mapping" ->
            expand_keys(value.m,
                        [i \in DOMAIN value.m |-> expand(value.m[i][1], environment, active)],
                        environment, active)
      [] value.t = "Tagged" -> Panic

----------------------------------------------------------------------------
(* Path Navigator and Mutation Applicator (lines 46-128) *)

\* Navigate::navigate from a Value: the node at path, or a panic when a segment
\* is absent or a node on the way is no Mapping.
RECURSIVE navigate(_, _)
navigate(value, path) ==
    IF path = <<>> THEN value
    ELSE IF value.t # "Mapping" THEN Panic
    ELSE IF ~HasKey(value.m, String(path[1])) THEN Panic
    ELSE navigate(value.m[KeyIndex(value.m, String(path[1]))][2], Tail(path))

\* The tree after a write through the &mut Value that navigate(path) handed out.
RECURSIVE written_at(_, _, _)
written_at(value, path, node) ==
    IF path = <<>> THEN node
    ELSE LET i == KeyIndex(value.m, String(path[1]))
         IN  Mapping([value.m EXCEPT ![i] =
                        <<value.m[i][1], written_at(value.m[i][2], Tail(path), node)>>])

\* The loop of the first arm of apply_mutation: insert entry after entry, and
\* panic at the first one whose key was there.
RECURSIVE insert_new_entries(_, _)
insert_new_entries(current, new_entries) ==
    IF new_entries = <<>> THEN Mapping(current)
    ELSE IF HasKey(current, new_entries[1][1]) THEN Panic
    ELSE insert_new_entries(MapInsert(current, new_entries[1][1], new_entries[1][2]),
                            Tail(new_entries))

\* The first arm of apply_mutation once the entries are merged.
add_merged(path, merged, content_) ==
    IF Failed(merged) THEN Panic ELSE written_at(content_, path, merged)

add_mapping_at(path, new_entries, content_, current) ==
    IF Failed(current) THEN Panic
    ELSE IF current.t # "Mapping" THEN Panic
    ELSE add_merged(path, insert_new_entries(current.m, new_entries), content_)

\* MutationAction::Add(path, Value::Mapping(new_entries))
add_mapping(path, new_entries, content_) ==
    add_mapping_at(path, new_entries, content_, navigate(content_, path))

add_sequence_at(path, new_elems, content_, current) ==
    IF Failed(current) THEN Panic
    ELSE IF current.t # "Sequence" THEN Panic
    ELSE written_at(content_, path, Sequence(current.e \o new_elems))

\* MutationAction::Add(path, Value::Sequence(new_elems))
add_sequence(path, new_elems, content_) ==
    add_sequence_at(path, new_elems, content_, navigate(content_, path))

\* path[..path.len() - 1] and path[path.len() - 1]
parent_of(path) == SubSeq(path, 1, Len(path) - 1)
last_of(path) == String(path[Len(path)])

remove_in(path, content_, parent) ==
    IF Failed(parent) THEN Panic
    ELSE IF parent.t # "Mapping" THEN Panic
    ELSE IF ~HasKey(parent.m, last_of(path)) THEN Panic
    ELSE written_at(content_, parent_of(path), Mapping(MapRemove(parent.m, last_of(path))))

\* MutationAction::Remove(path); path.len() - 1 panics on an empty path.
remove(path, content_) ==
    IF path = <<>> THEN Panic
    ELSE remove_in(path, content_, navigate(content_, parent_of(path)))

insert_in(path, v, content_, parent) ==
    written_at(content_, parent_of(path), Mapping(MapInsert(parent.m, last_of(path), v)))

replace_in(path, v, content_, parent) ==
    IF Failed(parent) THEN Panic
    ELSE IF parent.t # "Mapping" THEN Panic
    ELSE IF ~HasKey(parent.m, last_of(path)) THEN Panic
    ELSE insert_in(path, v, content_, parent)

\* Replace that inserts the value also where the key was absent.
replace_or_create(path, v, content_) ==
    IF path = <<>> THEN Panic
    ELSE IF Failed(navigate(content_, parent_of(path))) THEN Panic
    ELSE IF navigate(content_, parent_of(path)).t # "Mapping" THEN Panic
    ELSE insert_in(path, v, content_, navigate(content_, parent_of(path)))

\* MutationAction::Replace(path, v)
replace(path, v, content_) ==
    IF path = <<>> THEN Panic
    ELSE replace_in(path, v, content_, navigate(content_, parent_of(path)))

Add(path, v) == [t |-> "Add", path |-> path, v |-> v]
Remove(path) == [t |-> "Remove", path |-> path]
Replace(path, v) == [t |-> "Replace", path |-> path, v |-> v]

\* fn apply_mutation: the tree after the edit, or a panic.
apply_mutation(mutation, content_) ==
    CASE mutation.t = "Add" /\ mutation.v.t = "Mapping" ->
            add_mapping(mutation.path, mutation.v.m, content_)
      [] mutation.t = "Add" /\ mutation.v.t = "Sequence" ->
            add_sequence(mutation.path, mutation.v.e, content_)
      [] mutation.t = "Add" -> Panic
      [] mutation.t = "Remove" -> remove(mutation.path, content_)
      [] mutation.t = "Replace" -> replace(mutation.path, mutation.v, content_)

\* A pattern that also matches as a glob: "*.yaml" matches every template.
pattern_matches_glob(filename_pattern, filename) ==
    filename_pattern = filename \/ filename_pattern = "*.yaml"

\* mutation.filename_pattern == filename (line 288)
pattern_matches(filename_pattern, filename) == filename_pattern = filename

----------------------------------------------------------------------------
(* The inputs the engine is run on *)

\* The most entries a definition source of the model holds.
MaxDefs == 2

txt_a == <<"a">>
txt_b == <<"b">>
txt_a_b == <<"a", "/", "b">>
txt_svc_3 == <<"s", "v", "c", "/", "3">>
txt_svc_30 == <<"s", "v", "c", "/", "3", "0">>
txt_svc_star == <<"s", "v", "c", "/", "*">>
txt_rt == <<"r", "t", "/">>
txt_rt_x == <<"r", "t", "/", "x">>
txt_default == <<"d", "e", "f", "a", "u", "l", "t">>
txt_alpha == <<"a", "l", "p", "h", "a">>
txt_zeta == <<"z", "e", "t", "a">>
txt_k == <<"k">>
txt_j == <<"j">>
txt_x_ == <<"x", " ">>
txt__y == <<" ", "y">>

\* A token as the templates write it: "(( name ))", "((name))", "((  name ))".
Token(form, name) ==
    CASE form = "spaced" -> <<"(", "(", " ">> \o name \o <<" ", ")", ")">>
      [] form = "tight" -> <<"(", "(">> \o name \o <<")", ")">>
      [] form = "wide" -> <<"(", "(", " ", " ">> \o name \o <<" ", ")", ")">>
TokenForms == {"spaced", "tight", "wide"}

\* What surrounds a token in a template: nothing, whitespace, or text.
Surroundings == {<<<<>>, <<>>>>, <<<<" ">>, <<"\n">>>>, <<txt_x_, txt__y>>}

map_k_j == Mapping(<< <<String(txt_k), Number(1)>>, <<String(txt_j), Number(2)>> >>)

DefKeys == {txt_svc_star, txt_svc_3, txt_a, txt_b, txt_a_b}
DefVals == {String(txt_default), String(txt_alpha), String(txt_zeta), Number(7),
            map_k_j, String(Token("spaced", txt_a))}

\* Every definition source of at most MaxDefs entries over DefKeys and DefVals.
DefinitionSources ==
    UNION {[D -> DefVals] : D \in {X \in SUBSET DefKeys : Cardinality(X) <= MaxDefs}}

PrefixLists == {<<>>, <<txt_rt>>}

Environment(defs, muts, prefixes) ==
    [definitions |-> [definitions |-> defs, mutations |-> muts],
     expected_runtime_lookup_prefixes |-> prefixes]

RefNames == {txt_svc_3, txt_svc_30, txt_svc_star, txt_a, txt_b, txt_a_b, txt_rt_x}
TokenNames == {txt_a, txt_a_b, txt_rt_x, txt_svc_3}

Templates ==
    {sur[1] \o Token(form, name) \o sur[2] :
        sur \in Surroundings, form \in TokenForms, name \in TokenNames}

DocKeys == {String(Token("spaced", txt_a)), String(Token("spaced", txt_b)), String(txt_k)}
DocVals == {Number(1),
            Mapping(<< <<String(txt_zeta), Number(1)>>, <<String(txt_alpha), Number(2)>> >>)}
Documents ==
    {Mapping(<< <<k1, v1>>, <<k2, v2>> >>) :
        k1 \in DocKeys, k2 \in DocKeys, v1 \in DocVals, v2 \in DocVals}
    \cup {Sequence(<<Mapping(<< <<k1, Number(1)>>, <<k2, Number(2)>> >>), String(txt_k)>>) :
        k1 \in DocKeys, k2 \in DocKeys}

----------------------------------------------------------------------------
(* The engine run on one input: lookup, expand_string, expand *)

\* No render call is in progress on any thread.
DiagIdle ==
    /\ hook = "default"
    /\ workers = {}
    /\ CURRENT_FILE = <<>>
    /\ DEFAULT_HOOK = <<>>
    /\ tpc = <<>>
    /\ tfile = <<>>
    /\ before = <<>>
    /\ log = <<>>
    /\ rendered = <<>>

Init ==
    /\ env \in {Environment(d, <<>>, p) : d \in DefinitionSources, p \in PrefixLists}
    /\ pc = "idle"
    /\ arg = Null
    /\ ret = Null
    /\ content = Null
    /\ mi = 0
    /\ DiagIdle

CallLookup ==
    /\ pc = "idle"
    /\ \E reference_name \in RefNames :
        /\ arg' = reference_name
        /\ ret' = lookup(reference_name, env, {})
    /\ pc' = "lookup"
    /\ UNCHANGED <<env, content, mi, diagVars>>

CallExpandString ==
    /\ pc = "idle"
    /\ \E string \in Templates :
        /\ arg' = string
        /\ ret' = expand_string(string, env, {})
    /\ pc' = "expand_string"
    /\ UNCHANGED <<env, content, mi, diagVars>>

CallExpand ==
    /\ pc = "idle"
    /\ \E value \in Documents :
        /\ arg' = value
        /\ ret' = expand(value, env, {})
    /\ pc' = "expand"
    /\ UNCHANGED <<env, content, mi, diagVars>>

Next == CallLookup \/ CallExpandString \/ CallExpand

Spec == Init /\ [][Next]_vars

----------------------------------------------------------------------------
(* Claims about lookup, expand_string and expand *)

defs == env.definitions.definitions

\* A name no entry can answer: it is no key, and no "/*" key generalises a
\* path the name starts with.
Undefined(name) ==
    /\ name \notin DOMAIN defs
    /\ \A k \in DOMAIN defs :
          ends_with(k, <<"/", "*">>) => ~starts_with(name, SubSeq(k, 1, Len(k) - 1))

RuntimeDeferred(name) ==
    \E i \in DOMAIN env.expected_runtime_lookup_prefixes :
        starts_with(name, env.expected_runtime_lookup_prefixes[i])

\* C1: with "svc/*" defined as "default" and no entry "svc/3", resolving the
\* name "svc/3" returns "default" (a one-character terminal segment falls back
\* to the "*" entry of its parent path).
C1_SingleCharFallsBackToParentWildcard ==
    ( /\ pc = "lookup"
      /\ arg = txt_svc_3
      /\ txt_svc_star \in DOMAIN defs
      /\ txt_svc_3 \notin DOMAIN defs
      /\ defs[txt_svc_star] = String(txt_default) )
    => ret = Some(String(txt_default))

\* Every Mapping node of v, in keys and values at any depth, has its text keys
\* in strictly ascending bytewise order.
RECURSIVE MappingsAscending(_)
MappingsAscending(v) ==
    CASE v.t = "Sequence" -> \A i \in DOMAIN v.e : MappingsAscending(v.e[i])
      [] v.t = "Mapping" ->
            /\ \A i \in DOMAIN v.m, j \in DOMAIN v.m :
                  (i < j /\ v.m[i][1].t = "String" /\ v.m[j][1].t = "String")
                     => StrLess(v.m[i][1].s, v.m[j][1].s)
            /\ \A i \in DOMAIN v.m :
                  MappingsAscending(v.m[i][1]) /\ MappingsAscending(v.m[i][2])
      [] OTHER -> TRUE

\* C2: in the tree expand returns, the entries of every Mapping node at any
\* depth are in ascending textual order of their expanded keys, whatever the
\* order of the input and whatever the keys' tokens resolve to.
C2_ExpandedKeysAscending ==
    (pc = "expand" /\ ~Failed(ret)) => MappingsAscending(ret)

\* C2 witness: keys "(( a ))", "(( b ))" resolving to "zeta", "alpha" came out
\* as alpha, zeta: the order of the input reversed.
C2_Witness ==
    /\ pc = "expand"
    /\ arg = Mapping(<< <<String(Token("spaced", txt_a)), Number(1)>>,
                        <<String(Token("spaced", txt_b)), Number(1)>> >>)
    /\ ret = Mapping(<< <<String(txt_alpha), Number(1)>>, <<String(txt_zeta), Number(1)>> >>)

\* C3: a template that is one token (whitespace around it at most) whose name
\* resolves to a Mapping yields that Mapping itself; the same token between
\* "x " and " y" fails fatally when the name resolves to anything but a String
\* or a Number, and otherwise yields the String with the token replaced by the
\* String's content or the Number's text.
C3_FullMatchVersusEmbedded ==
    pc = "expand_string" =>
        \A name \in TokenNames, form \in TokenForms :
            LET val == lookup(name, env, {})
                token == Token(form, name)
            IN  val.t = "Some" =>
                /\ (arg \in {token, <<" ">> \o token \o <<"\n">>} /\ val.v.t = "Mapping")
                      => ret = val.v
                /\ arg = txt_x_ \o token \o txt__y =>
                      CASE val.v.t = "String" -> ret = String(txt_x_ \o val.v.s \o txt__y)
                        [] val.v.t = "Number" -> ret = String(txt_x_ \o Digits(val.v.n) \o txt__y)
                        [] OTHER -> ret = Panic

\* C3 witness: the template "(( a/b ))" became the Mapping a/b resolves to.
C3_Witness ==
    /\ pc = "expand_string"
    /\ arg = Token("spaced", txt_a_b)
    /\ ret.t = "Mapping"
    /\ ret = lookup(txt_a_b, env, {}).v

\* C4: a name that starts with a runtime prefix and that no definition answers
\* resolves to "no value" without a fatal failure, and its token inside a
\* larger string is left in the output character for character.
C4_DeferredTokenLeftAsWritten ==
    /\ (pc = "lookup" /\ RuntimeDeferred(arg) /\ Undefined(arg)) => ret = None
    /\ pc = "expand_string" =>
          \A name \in TokenNames, form \in TokenForms :
              ( /\ arg = txt_x_ \o Token(form, name) \o txt__y
                /\ RuntimeDeferred(name)
                /\ Undefined(name) )
              => ret = String(arg)

\* C9: resolution ends, for every name and every definition source: lookup
\* returns a value, returns "no value", or fails fatally; it never recurses
\* without end.
C9_ResolutionEnds ==
    pc = "lookup" => ret.t \in {"Some", "None", "Panic"}

----------------------------------------------------------------------------
(* apply_mutation run on parsed trees, one edit after another *)

\* The most mutation records a definition source of the model lists, and the
\* most edits applied to one tree.
MaxMutations == 2

txt_c == <<"c">>

tree_a_k ==
    Mapping(<< <<String(txt_a),
                 Mapping(<< <<String(txt_b), Number(1)>>,
                            <<String(txt_c), Sequence(<<Number(1)>>)>> >>)>>,
               <<String(txt_k), String(Token("spaced", txt_a))>> >>)

Trees == {tree_a_k, Mapping(<<>>), Sequence(<<Number(1)>>)}

Paths == {<<>>, <<txt_a>>, <<txt_a, txt_b>>, <<txt_a, txt_c>>, <<txt_k>>, <<txt_j>>,
          <<txt_a, txt_j>>, <<txt_k, txt_j>>}

AddedValues ==
    {Mapping(<< <<String(txt_j), Number(2)>> >>),
     Mapping(<< <<String(txt_b), Number(9)>> >>),
     Mapping(<< <<String(txt_j), Number(2)>>, <<String(txt_b), Number(9)>> >>),
     Mapping(<<>>),
     Sequence(<<Number(2), Number(3)>>),
     Number(5)}

ReplacingValues == {Number(5), Mapping(<< <<String(txt_j), Number(2)>> >>)}

MutationActions ==
    {Add(p, v) : p \in Paths, v \in AddedValues}
    \cup {Remove(p) : p \in Paths}
    \cup {Replace(p, v) : p \in Paths, v \in ReplacingValues}

InitMutation ==
    /\ env = Environment(<<>>, <<>>, <<>>)
    /\ pc = "idle"
    /\ arg = Null
    /\ ret = Null
    /\ content \in Trees
    /\ mi = 0
    /\ DiagIdle

\* One call of apply_mutation on the tree the calls before it left.
CallApplyMutation ==
    /\ pc \in {"idle", "apply_mutation"}
    /\ ~Failed(content)
    /\ mi < MaxMutations
    /\ \E mutation \in MutationActions :
        /\ arg' = [mutation |-> mutation, before |-> content]
        /\ ret' = apply_mutation(mutation, content)
    /\ content' = ret'
    /\ mi' = mi + 1
    /\ pc' = "apply_mutation"
    /\ UNCHANGED <<env, diagVars>>

SpecMutation == InitMutation /\ [][CallApplyMutation]_vars

Keys(m) == {m[i][1] : i \in DOMAIN m}
Entries(m) == {m[i] : i \in DOMAIN m}

\* Trees c and r are the same everywhere but, at most, in the node at path.
RECURSIVE SameOutside(_, _, _)
SameOutside(c, r, path) ==
    \/ path = <<>>
    \/ /\ c.t = "Mapping"
       /\ r.t = "Mapping"
       /\ Len(r.m) = Len(c.m)
       /\ \A i \in DOMAIN c.m :
            /\ r.m[i][1] = c.m[i][1]
            /\ IF c.m[i][1] = String(path[1])
               THEN SameOutside(c.m[i][2], r.m[i][2], Tail(path))
               ELSE r.m[i][2] = c.m[i][2]

\* C5: apply_mutation does not return when an added Mapping has a key the
\* target Mapping holds, when a Sequence is added to a Mapping or a Mapping to a
\* Sequence, when a scalar is added, or when the key to remove or to replace is
\* absent from the parent Mapping; in every other case whose path leads to a
\* Mapping or Sequence target (Add) or a Mapping parent (Remove, Replace) it
\* returns the tree with that edit and nothing else changed.
C5_MutationContract ==
    pc = "apply_mutation" =>
        LET m == arg.mutation
            c == arg.before
            target == navigate(c, m.path)
            parent_path == SubSeq(m.path, 1, Len(m.path) - 1)
            parent == navigate(c, parent_path)
            last == String(m.path[Len(m.path)])
        IN
        /\ (m.t = "Add" /\ m.v.t \notin {"Mapping", "Sequence"}) => ret = Panic
        /\ (m.t = "Add" /\ ~Failed(target)) =>
              CASE m.v.t = "Mapping" /\ target.t = "Mapping" ->
                      IF Keys(m.v.m) \cap Keys(target.m) # {} THEN ret = Panic
                      ELSE /\ ~Failed(ret)
                           /\ SameOutside(c, ret, m.path)
                           /\ navigate(ret, m.path).t = "Mapping"
                           /\ Entries(navigate(ret, m.path).m) =
                                 Entries(target.m) \cup Entries(m.v.m)
                           /\ Len(navigate(ret, m.path).m) = Len(target.m) + Len(m.v.m)
                [] m.v.t = "Sequence" /\ target.t = "Sequence" ->
                      /\ ~Failed(ret)
                      /\ SameOutside(c, ret, m.path)
                      /\ navigate(ret, m.path) = Sequence(target.e \o m.v.e)
                [] m.v.t = "Sequence" /\ target.t = "Mapping" -> ret = Panic
                [] m.v.t = "Mapping" /\ target.t = "Sequence" -> ret = Panic
                [] OTHER -> TRUE
        /\ ( /\ m.t \in {"Remove", "Replace"}
             /\ m.path # <<>>
             /\ ~Failed(parent)
             /\ parent.t = "Mapping" ) =>
              IF last \notin Keys(parent.m) THEN ret = Panic
              ELSE /\ ~Failed(ret)
                   /\ SameOutside(c, ret, parent_path)
                   /\ navigate(ret, parent_path).t = "Mapping"
                   /\ LET now == navigate(ret, parent_path).m
                      IN  IF m.t = "Remove"
                          THEN /\ Entries(now) = {e \in Entries(parent.m) : e[1] # last}
                               /\ Len(now) = Len(parent.m) - 1
                          ELSE /\ Len(now) = Len(parent.m)
                               /\ \A i \in DOMAIN now :
                                    /\ now[i][1] = parent.m[i][1]
                                    /\ now[i][2] = IF now[i][1] = last THEN m.v
                                                   ELSE parent.m[i][2]

\* C5 witness: after an edit that returned, Replace of the absent key "a/j" by a
\* value did not return.
C5_Witness ==
    /\ pc = "apply_mutation"
    /\ mi = 2
    /\ arg.mutation = Replace(<<txt_a, txt_j>>, Number(5))
    /\ navigate(arg.before, <<txt_a>>).t = "Mapping"
    /\ ret = Panic

----------------------------------------------------------------------------
(* process_yaml (lines 281-296), statement by statement *)

\* What serde_yaml::from_reader gives for the template files of the model.
Template(filename, parsed) == [filename |-> filename, parsed |-> parsed]

FileNames == {"app.yaml", "db.yaml"}
FilenamePatterns == {"app.yaml", "db.yaml", "*.yaml"}

Templates_yaml == {Template(f, tree_a_k) : f \in FileNames}

Mutation(filename_pattern, action) ==
    [filename_pattern |-> filename_pattern, action |-> action]

\* The edits of the mutation records: each depends on, or undoes, another.
RecordedActions ==
    {Add(<<txt_a>>, Mapping(<< <<String(txt_j), String(Token("spaced", txt_b))>> >>)),
     Replace(<<txt_a, txt_j>>, Number(5)),
     Remove(<<txt_a, txt_b>>),
     Replace(<<txt_k>>, String(txt_x_ \o Token("tight", txt_b))),
     Add(<<txt_a, txt_c>>, Sequence(<<String(Token("spaced", txt_a))>>))}

MutationRecords == {Mutation(f, a) : f \in FilenamePatterns, a \in RecordedActions}

MutationLists ==
    UNION {[1..n -> MutationRecords] : n \in 0..MaxMutations}

YamlDefinitions ==
    {(txt_a :> String(txt_alpha)) @@ (txt_b :> Number(7)),
     (txt_a :> String(txt_alpha))}

InitYaml ==
    /\ env \in {Environment(d, muts, <<>>) : d \in YamlDefinitions, muts \in MutationLists}
    /\ pc = "idle"
    /\ arg = Null
    /\ ret = Null
    /\ content = Null
    /\ mi = 0
    /\ DiagIdle

\* let mut content = serde_yaml::from_reader(...)
ProcessYamlParse ==
    /\ pc = "idle"
    /\ \E template \in Templates_yaml :
        /\ arg' = template
        /\ content' = template.parsed
    /\ mi' = 1
    /\ pc' = "mutations"
    /\ UNCHANGED <<env, ret, diagVars>>

\* One turn of the for loop over a record whose pattern is the file's name.
ProcessYamlMutate ==
    /\ pc = "mutations"
    /\ mi <= Len(env.definitions.mutations)
    /\ LET mutation == env.definitions.mutations[mi]
       IN  /\ pattern_matches(mutation.filename_pattern, arg.filename)
           /\ content' = apply_mutation(mutation.action, content)
           /\ IF Failed(content')
              THEN pc' = "process_yaml" /\ ret' = content'
              ELSE pc' = "mutations" /\ ret' = ret
    /\ mi' = mi + 1
    /\ UNCHANGED <<env, arg, diagVars>>

\* One turn of the for loop over a record with another pattern.
ProcessYamlSkip ==
    /\ pc = "mutations"
    /\ mi <= Len(env.definitions.mutations)
    /\ ~pattern_matches(env.definitions.mutations[mi].filename_pattern, arg.filename)
    /\ mi' = mi + 1
    /\ UNCHANGED <<env, pc, arg, ret, content, diagVars>>

\* let mut content = expand(content, environment); postprocess_yaml changes
\* nothing; content is returned.
ProcessYamlExpand ==
    /\ pc = "mutations"
    /\ mi > Len(env.definitions.mutations)
    /\ content' = expand(content, env, {})
    /\ ret' = content'
    /\ pc' = "process_yaml"
    /\ UNCHANGED <<env, arg, mi, diagVars>>

NextYaml == ProcessYamlParse \/ ProcessYamlMutate \/ ProcessYamlSkip \/ ProcessYamlExpand

SpecYaml == InitYaml /\ [][NextYaml]_vars

\* The records among the first n of the list whose pattern equals the name.
MatchingAmong(n, filename) ==
    SelectSeq(SubSeq(env.definitions.mutations, 1, n),
              LAMBDA mutation : mutation.filename_pattern = filename)

\* The edits applied one after another, each to the tree the one before left.
RECURSIVE AppliedInOrder(_, _)
AppliedInOrder(mutations, tree) ==
    IF mutations = <<>> \/ Failed(tree) THEN tree
    ELSE AppliedInOrder(Tail(mutations), apply_mutation(mutations[1].action, tree))

\* C8: process_yaml applies exactly the mutations whose pattern equals the
\* template's file name, in list order, each on the tree the ones before it
\* left, and all of them before any expansion: inside the loop the tree is the
\* parsed one with the matching records so far applied and nothing expanded,
\* and the result is the expansion of the tree with all of them applied.
C8_MatchingMutationsInOrderThenExpand ==
    /\ pc = "mutations" =>
          content = AppliedInOrder(MatchingAmong(mi - 1, arg.filename), arg.parsed)
    /\ pc = "process_yaml" =>
          LET mutated == AppliedInOrder(
                  MatchingAmong(Len(env.definitions.mutations), arg.filename), arg.parsed)
          IN  ret = IF Failed(mutated) THEN mutated ELSE expand(mutated, env, {})

\* C8 witness: of the records (app.yaml: Add j under a), (app.yaml: Replace a/j
\* by 5) the second replaced what the first had added, and the result came out
\* expanded ("(( a ))" under k became "alpha").
C8_Witness ==
    /\ pc = "process_yaml"
    /\ arg.filename = "app.yaml"
    /\ Len(env.definitions.mutations) = 2
    /\ env.definitions.mutations[1] =
          Mutation("app.yaml", Add(<<txt_a>>, Mapping(<< <<String(txt_j), String(Token("spaced", txt_b))>> >>)))
    /\ env.definitions.mutations[2] = Mutation("app.yaml", Replace(<<txt_a, txt_j>>, Number(5)))
    /\ ~Failed(ret)
    /\ navigate(ret, <<txt_a, txt_j>>) = Number(5)
    /\ navigate(ret, <<txt_k>>) = String(txt_alpha)

----------------------------------------------------------------------------
(* Diagnostic Context (lines 241-279): render calls made by threads.  The     *)
(* panic hook is one per process (std::panic::set_hook / take_hook); the        *)
(* marker CURRENT_FILE and the saved hook DEFAULT_HOOK are one per thread.     *)

\* The most render calls the threads of the model begin, all together.
MaxCalls == 3

OutputPaths == {"out/app.yaml", "out/db.yaml", "out/motd.txt"}

\* fn process_text, the closure handed to with_error_catcher, on the text read
\* from the template: the expanded text, or a failure.
process_text(text, environment) ==
    LET expanded == expand_string(text, environment, {})
    IN  IF Failed(expanded) THEN expanded
        ELSE IF string_value(expanded) = None THEN Panic
        ELSE String(string_value(expanded).v)

\* The text templates and definition sources the render calls are made on: a
\* defined reference, an undefined one, and one defined as itself.
RenderJobs ==
    {[text |-> txt_x_ \o Token("spaced", txt_a) \o txt__y,
      environment |-> Environment(d, <<>>, <<>>)] :
        d \in {(txt_a :> String(txt_alpha)),
               (txt_b :> String(txt_alpha)),
               (txt_a :> String(Token("spaced", txt_a)))}}

\* What the processor of a render call on job comes to.
processor(job) == process_text(job.text, job.environment)

Report(t, what, file) == [thread |-> t, report |-> what, file |-> file]

\* The hook h called for a panic of thread t.  "default" is the hook of the
\* platform; "panic_hook" is fn panic_hook, which takes the thread's marker,
\* prints the notice if there was one, then takes the thread's saved hook and
\* calls it if there was one.  st holds CURRENT_FILE, DEFAULT_HOOK and log.
RECURSIVE call_hook(_, _, _)
call_hook(h, t, st) ==
    IF h = "panic_hook"
    THEN LET f == st.CURRENT_FILE[t]
             def_hook == st.DEFAULT_HOOK[t]
             noticed == [st EXCEPT
                            !.CURRENT_FILE[t] = None,
                            !.DEFAULT_HOOK[t] = None,
                            !.log = IF f = None THEN @
                                    ELSE Append(@, Report(t, "Failed to compile", f.v))]
         IN  IF def_hook = None THEN noticed ELSE call_hook(def_hook.v, t, noticed)
    ELSE [st EXCEPT !.log = Append(@, Report(t, h, "-"))]

InEngineIdle ==
    /\ env = Environment(<<>>, <<>>, <<>>)
    /\ pc = "idle"
    /\ arg = Null
    /\ ret = Null
    /\ content = Null
    /\ mi = 0

InitDiag(threads, installed) ==
    /\ InEngineIdle
    /\ workers = threads
    /\ hook = installed
    /\ CURRENT_FILE = [t \in threads |-> None]
    /\ DEFAULT_HOOK = [t \in threads |-> None]
    /\ tpc = [t \in threads |-> "idle"]
    /\ tfile = [t \in threads |-> "-"]
    /\ before = [t \in threads |-> installed]
    /\ log = <<>>
    /\ rendered = <<>>

CallsBegun == Len(rendered) + Cardinality({t \in workers : tpc[t] # "idle"})

\* with_error_catcher, line 258: CURRENT_FILE.set(Some(output_path))
SetCurrentFile(t) ==
    /\ tpc[t] = "idle"
    /\ CallsBegun < MaxCalls
    /\ \E output_path \in OutputPaths :
        /\ CURRENT_FILE' = [CURRENT_FILE EXCEPT ![t] = Some(output_path)]
        /\ tfile' = [tfile EXCEPT ![t] = output_path]
    /\ before' = [before EXCEPT ![t] = hook]
    /\ tpc' = [tpc EXCEPT ![t] = "marked"]
    /\ UNCHANGED <<engineVars, hook, DEFAULT_HOOK, log, rendered, workers>>

\* line 262: def_hook.set(Some(std::panic::take_hook())); take_hook leaves the
\* platform's hook registered.
SaveHook(t) ==
    /\ tpc[t] = "marked"
    /\ DEFAULT_HOOK' = [DEFAULT_HOOK EXCEPT ![t] = Some(hook)]
    /\ hook' = "default"
    /\ tpc' = [tpc EXCEPT ![t] = "saved"]
    /\ UNCHANGED <<engineVars, CURRENT_FILE, tfile, before, log, rendered, workers>>

\* line 263: std::panic::set_hook(Box::new(panic_hook))
SetHook(t) ==
    /\ tpc[t] = "saved"
    /\ hook' = "panic_hook"
    /\ tpc' = [tpc EXCEPT ![t] = "processing"]
    /\ UNCHANGED <<engineVars, CURRENT_FILE, DEFAULT_HOOK, tfile, before, log, rendered, workers>>

\* line 265: processor() returns its content.
ProcessorReturns(t) ==
    /\ tpc[t] = "processing"
    /\ \E job \in RenderJobs : ~Failed(processor(job))
    /\ tpc' = [tpc EXCEPT ![t] = "processed"]
    /\ UNCHANGED <<engineVars, hook, CURRENT_FILE, DEFAULT_HOOK, tfile, before, log,
                   rendered, workers>>

\* line 265: processor() panics.  The hook registered at that moment is called
\* on the panicking thread, which then unwinds out of with_error_catcher.
ProcessorPanics(t) ==
    /\ tpc[t] = "processing"
    /\ \E job \in RenderJobs : processor(job) = Panic
    /\ LET st == call_hook(hook, t, [CURRENT_FILE |-> CURRENT_FILE,
                                     DEFAULT_HOOK |-> DEFAULT_HOOK, log |-> log])
       IN  /\ CURRENT_FILE' = st.CURRENT_FILE
           /\ DEFAULT_HOOK' = st.DEFAULT_HOOK
           /\ log' = st.log
    /\ tpc' = [tpc EXCEPT ![t] = "unwound"]
    /\ UNCHANGED <<engineVars, hook, tfile, before, rendered, workers>>

\* line 265: processor() recurses until the thread's stack is used up.  The
\* runtime reports the overflow and aborts the process; no panic hook is called.
ProcessorOverflows(t) ==
    /\ tpc[t] = "processing"
    /\ \E job \in RenderJobs : processor(job) = StackOverflow
    /\ log' = Append(log, Report(t, "stack overflow", "-"))
    /\ tpc' = [u \in workers |-> IF u = t THEN "overflowed" ELSE "aborted"]
    /\ UNCHANGED <<engineVars, hook, CURRENT_FILE, DEFAULT_HOOK, tfile, before, rendered,
                   workers>>

\* line 266: let _ = std::panic::take_hook()
TakeHook(t) ==
    /\ tpc[t] = "processed"
    /\ hook' = "default"
    /\ tpc' = [tpc EXCEPT ![t] = "unhooked"]
    /\ UNCHANGED <<engineVars, CURRENT_FILE, DEFAULT_HOOK, tfile, before, log, rendered, workers>>

\* lines 267-270: CURRENT_FILE.set(None); content is returned.
ClearCurrentFile(t) ==
    /\ tpc[t] = "unhooked"
    /\ CURRENT_FILE' = [CURRENT_FILE EXCEPT ![t] = None]
    /\ rendered' = Append(rendered, tfile[t])
    /\ tpc' = [tpc EXCEPT ![t] = "idle"]
    /\ UNCHANGED <<engineVars, hook, DEFAULT_HOOK, tfile, before, log, workers>>

NextDiag ==
    \E t \in workers :
        \/ SetCurrentFile(t)
        \/ SaveHook(t)
        \/ SetHook(t)
        \/ ProcessorReturns(t)
        \/ ProcessorPanics(t)
        \/ ProcessorOverflows(t)
        \/ TakeHook(t)
        \/ ClearCurrentFile(t)

\* Render calls one after another on one thread, from the start of the process.
SpecSeq == InitDiag({1}, "default") /\ [][NextDiag]_vars

\* The same, in a process whose caller had registered a hook of its own.
SpecHooked == InitDiag({1}, "custom") /\ [][NextDiag]_vars

\* Render calls on two worker threads, each thread making its calls in turn.
SpecConc == InitDiag({1, 2}, "default") /\ [][NextDiag]_vars

\* What the hooks and the runtime reported for the failure of thread t (a
\* thread fails at most once: nothing in the code catches a panic).
ReportsOf(t) == SelectSeq(log, LAMBDA r : r.thread = t)

ReportedWithOwnFile(t) ==
    ReportsOf(t) = <<Report(t, "Failed to compile", tfile[t]), Report(t, "default", "-")>>

\* C6: in render calls made one after another on one thread, every fatal
\* failure inside a call is reported first by the notice naming the output path
\* of that call and then by the platform's default reporting, and in no other
\* way.
C6_SequentialFailuresReportedWithFile ==
    \A t \in workers : tpc[t] \in {"unwound", "overflowed"} => ReportedWithOwnFile(t)

\* C7: with render calls on several threads, no call disturbs the marker or the
\* hook another call in progress relies on, so that a panic in any call is
\* reported with that call's own output path and reaches the default reporting.
C7_ConcurrentPanicsReportedWithFile ==
    \A t \in workers : tpc[t] = "unwound" => ReportedWithOwnFile(t)

\* C10: once a render call has ended, by returning or by its hook having run
\* for a panic, the marker is empty and the registered hook is the one that was
\* registered when the call began.
C10_MarkerClearedAndHookRestored ==
    \A t \in workers :
        tpc[t] \in {"idle", "unwound"} =>
            /\ CURRENT_FILE[t] = None
            /\ hook = before[t]

====
